---- MODULE Spec2Model ----
(* Model of the live voice session of src/components/LiveVoiceSession.tsx:  *)
(* the React component state (isActive, status), its refs (sessionRef,      *)
(* audioContextRef, nextStartTimeRef, sourcesRef), every startSession       *)
(* invocation with its audio contexts, microphone stream and connection,    *)
(* and the callbacks onopen / onmessage / onerror / onclose / onended.      *)
(* Time is counted in output sample frames (1/24000 s), so a decoded        *)
(* buffer's duration is its frame count.                                    *)
EXTENDS Integers, Sequences, FiniteSets, TLC

\* ---- bounds of the model ----
MaxSessions == 2   \* startSession invocations (session lifecycle runs)
LifeMsgs == 2      \* inbound messages handled (session lifecycle runs)
LifeTime == 1      \* ticks of the wall clock (session lifecycle runs)
PlaySessions == 1  \* startSession invocations (playback runs)
MaxMsgs == 3       \* inbound messages handled (playback runs)
MaxTime == 3       \* ticks of the wall clock (playback runs)
MaxBytes == 4      \* byte length of an inbound chunk
LifeFrames == 1    \* frames captured (session lifecycle runs)
PlayFrames == 1    \* frames captured (playback runs)
QuietAmp == 0      \* largest sample numerator captured (lifecycle and playback runs: silence)
CapSessions == 1   \* startSession invocations (capture runs)
CapMsgs == 1       \* inbound messages handled (capture runs)
CapTime == 1       \* ticks of the wall clock (capture runs)
MaxFrames == 3     \* frames captured (capture runs)
SampleDen == 2     \* captured samples are k / SampleDen, k in -SampleDen..SampleDen

Max(a, b) == IF a >= b THEN a ELSE b

\* ---- program constants ----
NumChannels == 1   \* decodeAudioData(..., 24000, 1)
PcmScale == 32768  \* int16[i] = inputData[i] * 32768

Sessions == 1..Max(Max(MaxSessions, PlaySessions), CapSessions)
NoSession == 0

VARIABLES
  isActive,         \* useState(false)
  status,           \* useState('Idle')
  sessionRef,       \* sessionRef.current: NoSession (null) or a session
  audioContextRef,  \* audioContextRef.current: NoSession (null) or the session owning the outputCtx
  nextStartTime,    \* nextStartTimeRef.current
  sourcesRef,       \* sourcesRef.current: set of indices into sources
  nSess,            \* number of startSession invocations so far
  pc,               \* position of each startSession invocation
  conn,             \* state of each invocation's connection
  inCtx, outCtx,    \* state of each invocation's 16 kHz / 24 kHz AudioContext
  ctxT0,            \* wall-clock time at which the invocation's outputCtx was constructed
  mic,              \* state of each invocation's MediaStream
  capturing,        \* scriptProcessor connected (onaudioprocess firing)
  closeCalls,       \* number of close() calls received by each session object
  sources,          \* every AudioBufferSourceNode created, in creation order
  epoch,            \* number of interruptions handled
  nMsgs,            \* number of onmessage invocations
  lastResult,       \* how the last onmessage invocation settled: "none", "ok", "threw"
  now,              \* wall clock
  budget,           \* how many sessions, messages, clock ticks and frames the run explores
  captured,         \* number of onaudioprocess callbacks run, per session
  pending,          \* per session: frames whose sessionPromise.then reaction has not run yet, oldest first
  sent              \* per session: frames handed to sendRealtimeInput, in call order

vars == <<isActive, status, sessionRef, audioContextRef, nextStartTime, sourcesRef,
          nSess, pc, conn, inCtx, outCtx, ctxT0, mic, capturing, closeCalls,
          sources, epoch, nMsgs, lastResult, now, budget, captured, pending, sent>>

uiVars == <<isActive, status, sessionRef, audioContextRef>>
playVars == <<nextStartTime, sourcesRef, sources, epoch>>
msgVars == <<nMsgs, lastResult, budget>>
sessVars == <<nSess, pc, conn, inCtx, outCtx, ctxT0, mic, capturing, closeCalls>>
capVars == <<captured, pending, sent>>

\* outputCtx.currentTime of session s: an AudioContext's clock starts at 0
\* when it is constructed.
CurrentTime(s) == now - ctxT0[s]

\* ---- decodeAudioData ----
\* new Int16Array(data.buffer) throws a RangeError when the byte length is odd.
DecodeThrowsTruncating(len, numChannels) == FALSE
DecodeThrowsOnlyEmpty(len, numChannels) == ((len \div 2) \div numChannels) = 0
DecodeThrows(len, numChannels) ==
  \/ len % 2 # 0
  \/ ((len \div 2) \div numChannels) = 0

\* frameCount = dataInt16.length / numChannels; buffer.duration in frames.
FrameCount(len, numChannels) == (len \div 2) \div numChannels

\* ---- scheduling arithmetic of onmessage ----
StartTimeNoMax(cursor, t) == t
StartTime(cursor, t) == Max(cursor, t)

NextCursorNoAdvance(start, dur) == start
NextCursor(start, dur) == start + dur

LifecycleBudget == [sessions |-> MaxSessions, msgs |-> LifeMsgs, time |-> LifeTime,
                    frames |-> LifeFrames, amp |-> QuietAmp]
PlaybackBudget == [sessions |-> PlaySessions, msgs |-> MaxMsgs, time |-> MaxTime,
                   frames |-> PlayFrames, amp |-> QuietAmp]
CaptureBudget == [sessions |-> CapSessions, msgs |-> CapMsgs, time |-> CapTime,
                  frames |-> MaxFrames, amp |-> SampleDen]

\* The component as mounted: useState / useRef initial values, nothing started.
Mounted ==
  /\ isActive = FALSE
  /\ status = "Idle"
  /\ sessionRef = NoSession
  /\ audioContextRef = NoSession
  /\ nextStartTime = 0
  /\ sourcesRef = {}
  /\ nSess = 0
  /\ pc = [s \in Sessions |-> "none"]
  /\ conn = [s \in Sessions |-> "none"]
  /\ inCtx = [s \in Sessions |-> "none"]
  /\ outCtx = [s \in Sessions |-> "none"]
  /\ ctxT0 = [s \in Sessions |-> 0]
  /\ mic = [s \in Sessions |-> "none"]
  /\ capturing = [s \in Sessions |-> FALSE]
  /\ closeCalls = [s \in Sessions |-> 0]
  /\ sources = <<>>
  /\ epoch = 0
  /\ nMsgs = 0
  /\ lastResult = "none"
  /\ now = 0
  /\ captured = [s \in Sessions |-> 0]
  /\ pending = [s \in Sessions |-> <<>>]
  /\ sent = [s \in Sessions |-> <<>>]

Init == Mounted /\ budget = LifecycleBudget
InitPlayback == Mounted /\ budget = PlaybackBudget
InitCapture == Mounted /\ budget = CaptureBudget

\* ---- startSession ----
\* The button runs startSession only while isActive is false
\* (onClick={isActive ? stopSession : startSession}).  The synchronous prefix
\* constructs both audio contexts and stores the output one, then awaits
\* getUserMedia.
StartSession ==
  /\ ~isActive
  /\ nSess < budget.sessions
  /\ LET s == nSess + 1 IN
       /\ nSess' = s
       /\ inCtx' = [inCtx EXCEPT ![s] = "running"]
       /\ outCtx' = [outCtx EXCEPT ![s] = "running"]
       /\ ctxT0' = [ctxT0 EXCEPT ![s] = now]
       /\ audioContextRef' = s
       /\ pc' = [pc EXCEPT ![s] = "awaitMic"]
  /\ UNCHANGED <<isActive, status, sessionRef, conn, mic, capturing, closeCalls, now>>
  /\ UNCHANGED <<playVars, msgVars>>
  /\ UNCHANGED capVars

\* getUserMedia resolves: ai.live.connect is called and sessionPromise awaited.
MicGranted(s) ==
  /\ pc[s] = "awaitMic"
  /\ mic' = [mic EXCEPT ![s] = "live"]
  /\ conn' = [conn EXCEPT ![s] = "connecting"]
  /\ pc' = [pc EXCEPT ![s] = "awaitConn"]
  /\ UNCHANGED <<uiVars, playVars, msgVars, nSess, inCtx, outCtx, ctxT0, capturing, closeCalls, now>>
  /\ UNCHANGED capVars

\* getUserMedia rejects: the catch block runs.
MicDenied(s) ==
  /\ pc[s] = "awaitMic"
  /\ pc' = [pc EXCEPT ![s] = "denied"]
  /\ status' = "Permission Denied"
  /\ UNCHANGED <<isActive, sessionRef, audioContextRef, playVars, msgVars, nSess, conn, inCtx, outCtx,
                 ctxT0, mic, capturing, closeCalls, now>>
  /\ UNCHANGED capVars

\* sessionPromise rejects: the same catch block runs.
ConnectFailed(s) ==
  /\ pc[s] = "awaitConn"
  /\ conn[s] = "connecting"
  /\ conn' = [conn EXCEPT ![s] = "failed"]
  /\ pc' = [pc EXCEPT ![s] = "connectFailed"]
  /\ status' = "Permission Denied"
  /\ UNCHANGED <<isActive, sessionRef, audioContextRef, playVars, msgVars, nSess, inCtx, outCtx,
                 ctxT0, mic, capturing, closeCalls, now>>
  /\ UNCHANGED capVars

\* sessionPromise has resolved (the connection was opened) and the await
\* resumes: sessionRef.current = session; setIsActive(true).
SessionResolved(s) ==
  /\ pc[s] = "awaitConn"
  /\ conn[s] \in {"open", "error", "closed"}
  /\ sessionRef' = s
  /\ isActive' = TRUE
  /\ pc' = [pc EXCEPT ![s] = "done"]
  /\ UNCHANGED <<status, audioContextRef, playVars, msgVars, nSess, conn, inCtx, outCtx, ctxT0, mic,
                 capturing, closeCalls, now>>
  /\ UNCHANGED capVars

\* ---- callbacks ----
OnOpen(s) ==
  /\ conn[s] = "connecting"
  /\ conn' = [conn EXCEPT ![s] = "open"]
  /\ status' = "Listening..."
  /\ capturing' = [capturing EXCEPT ![s] = TRUE]
  /\ UNCHANGED <<isActive, sessionRef, audioContextRef, playVars, msgVars, nSess, pc, inCtx, outCtx,
                 ctxT0, mic, closeCalls, now>>
  /\ UNCHANGED capVars

\* The source node onmessage creates for a decoded chunk (createBufferSource,
\* source.start(nextStartTimeRef.current)).
NewSource(s, len) ==
  LET t == CurrentTime(s)
      start == StartTime(nextStartTime, t)
  IN [sess |-> s, start |-> start, dur |-> FrameCount(len, NumChannels), at |-> t,
      epoch |-> epoch, state |-> "live", endedFired |-> FALSE]

\* sourcesRef.current.forEach(s => s.stop())
StopAllSkipped(srcs, ref) == srcs
StopAll(srcs, ref) ==
  [i \in DOMAIN srcs |-> IF i \in ref THEN [srcs[i] EXCEPT !.state = "stopped"] ELSE srcs[i]]

\* onmessage for a message carrying len bytes of audio (0: no audio part) and
\* the interrupted flag.  decodeAudioData contains no await of its own, so the
\* continuation after `await decodeAudioData(...)` runs in the microtask that
\* follows, before any other callback: the handler is one step.  When the
\* decode throws, the handler's promise rejects and nothing after line 81 runs.
OnMessage(s, len, interrupted) ==
  /\ conn[s] = "open"
  /\ nMsgs < budget.msgs
  /\ len > 0 \/ interrupted
  /\ nMsgs' = nMsgs + 1
  /\ LET hasAudio == len > 0
         throws == hasAudio /\ DecodeThrows(len, NumChannels)
         src == NewSource(s, len)
         id == Len(sources) + 1
         sources1 == IF hasAudio THEN Append(sources, src) ELSE sources
         ref1 == IF hasAudio THEN sourcesRef \cup {id} ELSE sourcesRef
         cursor1 == IF hasAudio THEN NextCursor(src.start, src.dur) ELSE nextStartTime
     IN IF throws
        THEN /\ lastResult' = "threw"
             /\ UNCHANGED playVars
        ELSE /\ lastResult' = "ok"
             /\ IF interrupted
                THEN /\ sources' = StopAll(sources1, ref1)
                     /\ sourcesRef' = {}
                     /\ nextStartTime' = 0
                     /\ epoch' = epoch + 1
                ELSE /\ sources' = sources1
                     /\ sourcesRef' = ref1
                     /\ nextStartTime' = cursor1
                     /\ epoch' = epoch
  /\ UNCHANGED <<uiVars, sessVars, now, budget>>
  /\ UNCHANGED capVars

\* source.onended = () => sourcesRef.current.delete(source): fires when the
\* buffer has played to its end, and also after stop().
OnEnded(i) ==
  /\ i \in DOMAIN sources
  /\ ~sources[i].endedFired
  /\ \/ sources[i].state = "stopped"
     \/ /\ sources[i].state = "live"
        /\ CurrentTime(sources[i].sess) >= sources[i].start + sources[i].dur
  /\ sources' = [sources EXCEPT ![i].endedFired = TRUE,
                                ![i].state = IF @ = "live" THEN "ended" ELSE @]
  /\ sourcesRef' = sourcesRef \ {i}
  /\ UNCHANGED <<uiVars, sessVars, msgVars, nextStartTime, epoch, now>>
  /\ UNCHANGED capVars

OnError(s) ==
  /\ conn[s] = "open"
  /\ conn' = [conn EXCEPT ![s] = "error"]
  /\ status' = "Error"
  /\ UNCHANGED <<isActive, sessionRef, audioContextRef, playVars, msgVars, nSess, pc, inCtx, outCtx,
                 ctxT0, mic, capturing, closeCalls, now>>
  /\ UNCHANGED capVars

\* The transport reports the end of the connection: after a remote close,
\* after an error, or after the local close() call.
OnClose(s) ==
  /\ conn[s] \in {"open", "error", "closing"}
  /\ conn' = [conn EXCEPT ![s] = "closed"]
  /\ isActive' = FALSE
  /\ status' = "Idle"
  /\ UNCHANGED <<sessionRef, audioContextRef, playVars, msgVars, nSess, pc, inCtx, outCtx,
                 ctxT0, mic, capturing, closeCalls, now>>
  /\ UNCHANGED capVars

\* ---- stopSession ----
\* The button runs stopSession only while isActive is true.
StopSession ==
  /\ isActive
  /\ IF sessionRef # NoSession
     THEN /\ closeCalls' = [closeCalls EXCEPT ![sessionRef] = @ + 1]
          /\ conn' = [conn EXCEPT ![sessionRef] = IF @ \in {"open", "error"} THEN "closing" ELSE @]
     ELSE UNCHANGED <<closeCalls, conn>>
  /\ isActive' = FALSE
  /\ status' = "Idle"
  /\ UNCHANGED <<sessionRef, audioContextRef, playVars, msgVars, nSess, pc, inCtx, outCtx,
                 ctxT0, mic, capturing, now>>
  /\ UNCHANGED capVars

\* The wall clock (and with it every running context's currentTime) advances.
Tick ==
  /\ now < budget.time
  /\ now' = now + 1
  /\ UNCHANGED <<uiVars, playVars, msgVars, sessVars>>
  /\ UNCHANGED capVars

\* ---- capture: scriptProcessor.onaudioprocess ----
\* Truncation toward zero of a / b (b > 0).
TruncDiv(a, b) == IF a >= 0 THEN a \div b ELSE -((-a) \div b)

\* The value an Int16Array element holds after it is assigned the number x:
\* the integer part of x modulo 2^16, read as a signed 16-bit value.
ToInt16(x) ==
  LET m == x % (2 * PcmScale)
  IN IF m >= PcmScale THEN m - 2 * PcmScale ELSE m

\* int16[i] = inputData[i] * 32768 for the sample k / SampleDen.
EncodeSample(k) == ToInt16(TruncDiv(k * PcmScale, SampleDen))

\* Reactions registered on one promise run in registration order.
ReactionIndexLast(q) == Len(q)
ReactionIndex(q) == 1

RemoveAt(q, i) == SubSeq(q, 1, i - 1) \o SubSeq(q, i + 1, Len(q))

RECURSIVE SumUpTo(_, _)
SumUpTo(f, n) == IF n = 0 THEN 0 ELSE f[n] + SumUpTo(f, n - 1)

\* Capture callbacks run so far, over all sessions.
TotalCaptured == SumUpTo(captured, Max(Max(MaxSessions, PlaySessions), CapSessions))

\* One capture callback of session s, for a frame holding the sample
\* k / SampleDen: the frame is encoded and a reaction that will send it is
\* registered on sessionPromise.  Nothing in the code disconnects the
\* processor, so the callback keeps firing once onopen has connected it.
OnAudioProcess(s, k) ==
  /\ capturing[s]
  /\ TotalCaptured < budget.frames
  /\ k \in -budget.amp..budget.amp
  /\ captured' = [captured EXCEPT ![s] = @ + 1]
  /\ pending' = [pending EXCEPT ![s] =
                   Append(@, [seq |-> captured[s] + 1, early |-> pc[s] # "done",
                              sample |-> k, pcm |-> EncodeSample(k)])]
  /\ UNCHANGED <<uiVars, playVars, msgVars, sessVars, now, sent>>

\* The reaction s => s.sendRealtimeInput({ media: pcmBlob }) runs.  It can run
\* only once sessionPromise has resolved; the await of line 113 was registered
\* on the promise before any capture callback, so it has resumed by then.
SendRealtimeInput(s) ==
  /\ pc[s] = "done"
  /\ pending[s] # <<>>
  /\ LET i == ReactionIndex(pending[s]) IN
       /\ sent' = [sent EXCEPT ![s] = Append(@, pending[s][i])]
       /\ pending' = [pending EXCEPT ![s] = RemoveAt(@, i)]
  /\ UNCHANGED <<uiVars, playVars, msgVars, sessVars, now, captured>>

Next ==
  \/ StartSession
  \/ StopSession
  \/ Tick
  \/ \E s \in Sessions : MicGranted(s)
  \/ \E s \in Sessions : MicDenied(s)
  \/ \E s \in Sessions : ConnectFailed(s)
  \/ \E s \in Sessions : SessionResolved(s)
  \/ \E s \in Sessions : OnOpen(s)
  \/ \E s \in Sessions, len \in 0..MaxBytes, interrupted \in BOOLEAN : OnMessage(s, len, interrupted)
  \/ \E i \in 1..Max(Max(MaxMsgs, LifeMsgs), CapMsgs) : OnEnded(i)
  \/ \E s \in Sessions : OnError(s)
  \/ \E s \in Sessions : OnClose(s)
  \/ \E s \in Sessions, k \in -SampleDen..SampleDen : OnAudioProcess(s, k)
  \/ \E s \in Sessions : SendRealtimeInput(s)

Spec == Init /\ [][Next]_vars
SpecPlayback == InitPlayback /\ [][Next]_vars
SpecCapture == InitCapture /\ [][Next]_vars

TypeOK ==
  /\ isActive \in BOOLEAN
  /\ status \in {"Idle", "Listening...", "Error", "Permission Denied"}
  /\ sessionRef \in Sessions \cup {NoSession}
  /\ sourcesRef \subseteq DOMAIN sources
  /\ \A s \in Sessions : conn[s] \in {"none", "connecting", "open", "error", "closing", "closed", "failed"}

\* ======================= playback scheduler =======================

\* C1: chunks handled with no interruption in between play in arrival order:
\* each is started at max(cursor, currentTime at receipt), the cursor being the
\* end of the chunk before it, so a chunk that arrives before its predecessor
\* has finished starts exactly where the predecessor ends (no gap, no overlap),
\* and the cursor is the end of the last chunk.
C1_PlaybackOrdering ==
  /\ \A i \in 2..Len(sources) :
       LET prev == sources[i - 1]
           cur == sources[i]
           prevEnd == prev.start + prev.dur
       IN prev.epoch = cur.epoch =>
            /\ cur.start = Max(prevEnd, cur.at)
            /\ cur.at <= prevEnd => cur.start = prevEnd
  /\ (Len(sources) > 0 /\ sources[Len(sources)].epoch = epoch) =>
       nextStartTime = sources[Len(sources)].start + sources[Len(sources)].dur

\* Three chunks of one utterance, the second and third delivered before the
\* chunk ahead of them has finished.
C1_Witness ==
  /\ Len(sources) = 3
  /\ sources[1].epoch = sources[3].epoch
  /\ sources[2].at < sources[1].start + sources[1].dur
  /\ sources[3].at < sources[2].start + sources[2].dur
  /\ sources[3].at > 0

\* C2: handling any message whose interrupted flag is set leaves the
\* ScheduledSourceSet empty, nextStartTime at 0 and no source created so far
\* still playing.
C2_Interruption ==
  [][\A s \in Sessions, len \in 0..MaxBytes :
       OnMessage(s, len, TRUE) =>
         /\ sourcesRef' = {}
         /\ nextStartTime' = 0
         /\ \A i \in DOMAIN sources' : sources'[i].state # "live"]_vars

\* C3: the cursor never decreases in a step that handles no interruption, and
\* a source created in a step is started no earlier than the current time of
\* the output context it plays in.
C3_CursorInvariant ==
  [][/\ epoch' = epoch => nextStartTime' >= nextStartTime
     /\ Len(sources') > Len(sources) =>
          LET new == sources'[Len(sources')]
          IN new.start >= CurrentTime(new.sess)]_vars

\* A chunk scheduled in a session that was started after an earlier session
\* was stopped, behind the cursor the earlier session left.
C3_Witness ==
  \E i \in DOMAIN sources :
    /\ sources[i].sess = 2
    /\ closeCalls[1] > 0
    /\ sources[i].start > sources[i].at
    /\ sources[i].at > 0

\* C10: a chunk whose byte length is not a multiple of 2 * channelCount makes
\* the decode throw, and the step that handles it changes neither the
\* ScheduledSourceSet nor the cursor and creates no source.
C10_MalformedChunk ==
  [][\A s \in Sessions, len \in 1..MaxBytes, interrupted \in BOOLEAN :
       (len % (2 * NumChannels) # 0 /\ OnMessage(s, len, interrupted)) =>
         /\ lastResult' = "threw"
         /\ UNCHANGED <<sourcesRef, nextStartTime, sources>>]_vars

\* A malformed chunk has just been dropped while earlier chunks are scheduled.
C10_Witness ==
  /\ lastResult = "threw"
  /\ sourcesRef # {}
  /\ nextStartTime > 0

\* ======================= session lifecycle =======================

\* A session is open from the startSession call that creates it until its
\* start fails or its connection is closed.
IsOpen(s) ==
  \/ pc[s] = "awaitMic"
  \/ conn[s] \in {"connecting", "open", "error", "closing"}

\* C4: at most one session is open at a time (a startSession issued while one
\* is connecting, listening or active creates nothing).
C4_SingleSession ==
  Cardinality({s \in Sessions : IsOpen(s)}) <= 1

\* C5: once stopSession has closed a session, every resource that session
\* acquired is released: microphone stream stopped, capture processor
\* disconnected, both audio contexts closed, no source left playing, and the
\* connection closed.
C5_StopReleasesAll ==
  \A s \in Sessions :
    closeCalls[s] > 0 =>
      /\ conn[s] \in {"closing", "closed"}
      /\ mic[s] = "stopped"
      /\ ~capturing[s]
      /\ inCtx[s] = "closed"
      /\ outCtx[s] = "closed"
      /\ \A i \in DOMAIN sources : sources[i].sess = s => sources[i].state # "live"

\* C6: after stopSession has closed a session, no transport or message
\* callback of that session changes status, isActive, nextStartTime or the
\* ScheduledSourceSet.
C6_NoCallbackAfterClose ==
  [][\A s \in Sessions :
       (/\ closeCalls[s] > 0
        /\ \/ OnClose(s)
           \/ OnError(s)
           \/ \E len \in 0..MaxBytes, interrupted \in BOOLEAN : OnMessage(s, len, interrupted))
       => UNCHANGED <<status, isActive, nextStartTime, sourcesRef>>]_vars

\* C7: a session that stopSession has been called on has had each of its
\* resources released exactly once: one close() of the connection, the
\* microphone stream stopped and both audio contexts closed.
C7_IdempotentClose ==
  \A s \in Sessions :
    closeCalls[s] > 0 =>
      /\ closeCalls[s] = 1
      /\ mic[s] = "stopped"
      /\ inCtx[s] = "closed" /\ outCtx[s] = "closed"

\* C8: once a transport error has put the status at Error, no later onclose,
\* onopen or onmessage takes the status out of Error.
C8_ErrorTerminal ==
  [][\A s \in Sessions :
       (/\ status = "Error"
        /\ \/ OnClose(s)
           \/ OnOpen(s)
           \/ \E len \in 0..MaxBytes, interrupted \in BOOLEAN : OnMessage(s, len, interrupted))
       => status' = "Error"]_vars

\* C9: when microphone access is denied, Permission Denied is shown with no
\* audio context constructed and no connection opened for that startSession,
\* and isActive is left as it was.
C9_DeniedBeforeAcquire ==
  [][\A s \in Sessions :
       MicDenied(s) =>
         /\ status' = "Permission Denied"
         /\ isActive' = isActive
         /\ conn'[s] = "none"
         /\ inCtx'[s] = "none"
         /\ outCtx'[s] = "none"]_vars

\* ======================= second group of claims =======================

\* C11: a malformed chunk is dropped without touching the session: the step
\* that handles it changes neither the status, isActive, the connection, the
\* startSession position nor anything the scheduler reads, and the well-formed
\* chunk handled next is started at max(cursor, currentTime) with the cursor
\* the malformed chunk found, joins the ScheduledSourceSet and advances the
\* cursor by its duration.
C11_MalformedRecovered ==
  [][\A s \in Sessions, len \in 1..MaxBytes, interrupted \in BOOLEAN :
       /\ (len % (2 * NumChannels) # 0 /\ OnMessage(s, len, interrupted)) =>
            UNCHANGED <<status, isActive, sessionRef, conn, pc, nextStartTime,
                        sourcesRef, sources, epoch>>
       /\ (/\ lastResult = "threw"
           /\ len % (2 * NumChannels) = 0
           /\ ~interrupted
           /\ OnMessage(s, len, interrupted)) =>
            LET n == Len(sources')
                new == sources'[n]
            IN /\ n = Len(sources) + 1
               /\ new.start = Max(nextStartTime, CurrentTime(s))
               /\ new.dur = len \div (2 * NumChannels)
               /\ new.state = "live"
               /\ sourcesRef' = sourcesRef \cup {n}
               /\ nextStartTime' = new.start + new.dur
               /\ status' = status]_vars

\* Three messages, one of them a malformed chunk that came before the last
\* one: both well-formed chunks are scheduled and the session is listening.
C11_Witness ==
  /\ nMsgs = 3
  /\ lastResult = "ok"
  /\ Len(sources) = 2
  /\ epoch = 0
  /\ sourcesRef = {1, 2}
  /\ status = "Listening..."

\* C12: in every reachable state, the frames handed to sendRealtimeInput are
\* the first captured frames in capture order, and the frames still waiting
\* follow them in capture order.
C12_OutboundOrder ==
  \A s \in Sessions :
    LET all == sent[s] \o pending[s]
    IN /\ Len(all) = captured[s]
       /\ \A i \in 1..Len(all) : all[i].seq = i

\* Three frames sent, the first captured before sessionPromise had resolved
\* and the last after, with an inbound message handled in between.
C12_Witness ==
  \E s \in Sessions :
    /\ Len(sent[s]) = 3
    /\ sent[s][1].early
    /\ ~sent[s][3].early
    /\ nMsgs > 0

\* C13: a capture callback runs, and a frame is handed to sendRealtimeInput,
\* only while the session's connection is open.
C13_CaptureBounded ==
  [][\A s \in Sessions :
       /\ SendRealtimeInput(s) => conn[s] = "open"
       /\ (\E k \in -SampleDen..SampleDen : OnAudioProcess(s, k)) => conn[s] = "open"]_vars

\* C14: the status label follows the session state: Permission Denied only
\* when a microphone request was denied, Listening only while a connection
\* is open.
C14_StatusDerived ==
  /\ status = "Permission Denied" => \E s \in Sessions : pc[s] = "denied"
  /\ status = "Listening..." => \E s \in Sessions : conn[s] = "open"

\* The sources that have been started and have neither ended nor been stopped.
Live(srcs) == {i \in DOMAIN srcs : srcs[i].state = "live"}

\* C15: the ScheduledSourceSet is exactly the set of live sources after every
\* step, and an onended removes its own source and nothing else.
C15_SourceSetTracking ==
  [][/\ sourcesRef' = Live(sources')
     /\ \A i \in DOMAIN sources : OnEnded(i) => sourcesRef' = sourcesRef \ {i}]_vars

\* The onended of a source stopped by an interruption has fired while a
\* source scheduled after the interruption is in the set.
C15_Witness ==
  \E i, j \in DOMAIN sources :
    /\ i < j
    /\ sources[i].state = "stopped"
    /\ sources[i].endedFired
    /\ j \in sourcesRef

\* C16: isActive is true only while the connection of the session in
\* sessionRef is open.
C16_ActiveOnlyWhileOpen ==
  isActive => (sessionRef # NoSession /\ conn[sessionRef] = "open")

\* C17: the first chunk of a session that is the only one with a live
\* connection is started at its output context's current time.
C17_FirstChunkAtCurrentTime ==
  [][\A s \in Sessions, len \in 1..MaxBytes :
       (/\ \A i \in DOMAIN sources : sources[i].sess # s
        /\ \A o \in Sessions \ {s} : conn[o] \notin {"connecting", "open", "error"}
        /\ len % (2 * NumChannels) = 0
        /\ OnMessage(s, len, FALSE))
       => sources'[Len(sources')].start = CurrentTime(s)]_vars

\* C18: every message with the interrupted flag, with or without an audio
\* part and whether or not that part decodes, counts as an interruption: all
\* sources in the set are stopped, the set is emptied and the cursor is 0.
C18_InterruptAlways ==
  [][\A s \in Sessions, len \in 0..MaxBytes :
       OnMessage(s, len, TRUE) =>
         /\ epoch' = epoch + 1
         /\ \A i \in sourcesRef : sources'[i].state = "stopped"
         /\ sourcesRef' = {}
         /\ nextStartTime' = 0]_vars

\* C19: every captured frame holds trunc(sample * 32768), a value in
\* -32768..32767 whose sign is not opposite to the sample's.
C19_NoWrap ==
  \A s \in Sessions :
    LET all == sent[s] \o pending[s]
    IN \A i \in 1..Len(all) :
         /\ all[i].pcm = TruncDiv(all[i].sample * PcmScale, SampleDen)
         /\ all[i].pcm \in -PcmScale..(PcmScale - 1)
         /\ all[i].sample > 0 => all[i].pcm >= 0
         /\ all[i].sample < 0 => all[i].pcm <= 0
====
